---- MODULE Spec2Model ----
(***************************************************************************)
(* Model of the Ada MCP server (src/main.py): the OAuth code/token stores, *)
(* the /authorize and /token handlers, the /sse stream generator and the   *)
(* /message JSON-RPC dispatcher.                                           *)
(*                                                                         *)
(* Conventions                                                             *)
(*  - time.time() is the integer clock `now` (seconds); it only advances.  *)
(*  - secrets.token_urlsafe(32) draws a value never drawn before (the      *)
(*    generator is cryptographically random); `used` records the draws.    *)
(*  - Python None is the string NONE; a missing dict key is a missing      *)
(*    element of the function's DOMAIN.                                    *)
(*  - A form body is the sequence of its "&"-separated segments, each the  *)
(*    sequence produced by split("=").                                     *)
(*  - A header / URI is a sequence of atoms, so that `in` and replace()    *)
(*    are computed and not assumed.                                        *)
(*  - One /sse connection is followed; it may be reopened. The generators  *)
(*    of different connections share nothing that any of them writes.      *)
(*  - Payload fields that no control flow reads (host-derived URLs, the ts *)
(*    of connected/ping events) are left out of the event records.         *)
(***************************************************************************)
EXTENDS Integers, Sequences, FiniteSets, Bags, TLC

VARIABLES
    now,          \* time.time()
    ticks,        \* number of clock advances so far
    AUTH_CODES,   \* code -> [client_id, redirect_uri, scope, code_challenge, code_challenge_method, expires]
    TOKENS,       \* token -> [user_id, scope, expires]
    used,         \* values secrets.token_urlsafe has returned
    issued,       \* code -> the time /authorize issued it (history)
    redeemed,     \* code -> the time /token minted an access token for it (history)
    pc,           \* the connection: where its sse_stream generator is suspended
    request,      \* the connection: argument of sse_stream (its Authorization header)
    authorized,   \* the connection: argument of sse_stream
    error_msg,    \* the connection: argument of sse_stream
    events,       \* the connection: events yielded so far
    inflight,     \* bag of the /token bodies whose handlers wait in `await request.body()`
    last          \* the last completed handler call: [op, req, resp]

vars == <<now, ticks, AUTH_CODES, TOKENS, used, issued, redeemed,
          pc, request, authorized, error_msg, events, inflight, last>>

stores  == <<AUTH_CODES, TOKENS, used, issued, redeemed>>
streams == <<pc, request, authorized, error_msg, events>>
clock   == <<now, ticks>>

(***************************************************************************)
(* Bounds                                                                  *)
(***************************************************************************)
MaxVals    == 2      \* random values the generator may hand out
MaxTicks   == 2      \* clock advances
MaxEvents  == 4      \* events kept in a stream's log (later pings are not logged)
MaxInflight == 2     \* /token requests in flight at the same time

(***************************************************************************)
(* Program constants                                                       *)
(***************************************************************************)
CODE_TTL      == 600
TOKEN_TTL     == 86400 * 30
SERVICE_TTL   == 86400
VALID_SCENTS  == {"awaken", "ada_master_KY6qtovamuXyDtHQKKWF6ZxceYE4HOXYCdZhJG-p-5c"}
TOOLS         == <<"Ada.invoke", "search", "fetch">>
NONE          == "<None>"

ValName == <<"v1", "v2", "v3", "v4", "v5", "v6">>
Vals    == {ValName[i] : i \in 1..MaxVals}
\* how far the clock may jump at once: the lifetimes, and one second
Steps       == {1, CODE_TTL, SERVICE_TTL, TOKEN_TTL}
OAuthSteps  == {1, CODE_TTL}
StreamSteps == {SERVICE_TTL, TOKEN_TTL}

NoCall == [op |-> "none"]

(***************************************************************************)
(* secrets.token_urlsafe(32): the values are interchangeable, so the draws  *)
(* are taken in the order of ValName                                       *)
(***************************************************************************)
token_urlsafe == {ValName[i] : i \in {Cardinality(used) + 1} \cap (1..MaxVals)}


(***************************************************************************)
(* Inputs                                                                  *)
(***************************************************************************)
URI_PLAIN == <<"https://x/cb">>
URI_QUERY == <<"https://x/cb", "?", "a=1">>

\* the OAuth parameters of a consent form, as the client sends them
FormParams ==
    { [client_id |-> "c1", redirect_uri |-> URI_PLAIN, scope |-> "read",
       state |-> "s1", code_challenge |-> "", code_challenge_method |-> ""],
      [client_id |-> "c2", redirect_uri |-> URI_QUERY, scope |-> "full",
       state |-> "", code_challenge |-> "ch", code_challenge_method |-> "S256"] }

Scents  == {"awaken", "wrong"}
FormActions == {"auth", "deny"}

\* POST /authorize forms
Forms ==
    { [client_id |-> p.client_id, redirect_uri |-> p.redirect_uri, scope |-> p.scope,
       state |-> p.state, code_challenge |-> p.code_challenge,
       code_challenge_method |-> p.code_challenge_method,
       scent |-> sc, action |-> a] : p \in FormParams, sc \in Scents, a \in FormActions }

\* POST /token bodies: "&"-separated segments, each split on "="
TokenBodies ==
    { <<<<"grant_type", "authorization_code">>, <<"code", c>>>> : c \in Vals }
    \cup { <<<<"grant_type", g>>>> :
             g \in {"authorization_code", "refresh_token", "client_credentials", "password"} }
    \cup { <<<<"junk">>>>,
           <<<<"grant_type", "authorization_code">>, <<"code", ValName[1], "">>>>,
           <<<<"code", ValName[2]>>, <<"grant_type", "authorization_code">>, <<"code", ValName[1]>>>> }

\* the bodies of the grants that need no code
GrantBodies ==
    { <<<<"grant_type", g>>>> : g \in {"refresh_token", "client_credentials"} }

(***************************************************************************)
(* Helpers                                                                 *)
(***************************************************************************)
Max(S) == CHOOSE x \in S : \A y \in S : y <= x

\* Python `x in seq`
Contains(seq, x) == \E i \in DOMAIN seq : seq[i] = x

\* dict with key k set to v
DictSet(d, k, v) == [x \in DOMAIN d \cup {k} |-> IF x = k THEN v ELSE d[x]]

\* dict.pop(k): the dict without k
DictDel(d, k) == [x \in DOMAIN d \ {k} |-> d[x]]

\* segments kept by `if "=" in x`
KeptSegments(body) == SelectSeq(body, LAMBDA x : Len(x) >= 2)

\* dict(...) raises ValueError on a segment that split("=") cut in more than two
ParseRaises(body) == \E i \in DOMAIN KeptSegments(body) : Len(KeptSegments(body)[i]) # 2

\* params.get(key, default) on dict(x.split("=") ...): the last pair wins
ParamsGet(body, key, default) ==
    LET kept == KeptSegments(body)
        idx  == {i \in DOMAIN kept : kept[i][1] = key}
    IN  IF idx = {} THEN default ELSE kept[Max(idx)][2]

(***************************************************************************)
(* POST /authorize                                                         *)
(***************************************************************************)
Redirect(uri, sep, query) ==
    [kind |-> "redirect", status |-> 302, uri |-> uri, sep |-> sep, query |-> query]

\* an exception that leaves a handler is answered with 500
ServerError == [kind |-> "error", status |-> 500]

\* the replacement fields of the template, in the order str.format meets
\* them: the braces of the style sheet come before the form's fields
CONSENT_HTML ==
    <<" font-family", " width", " background", " background", " color",
      "client_id", "client_id", "redirect_uri", "scope", "state",
      "code_challenge", "code_challenge_method", "error">>

\* str.format: every field is looked up among the keyword arguments, and a
\* name that is not one of them raises KeyError
Format(template, kwargs) ==
    IF \A i \in DOMAIN template : template[i] \in DOMAIN kwargs
    THEN [raised |-> FALSE, text |-> [i \in DOMAIN template |-> kwargs[template[i]]]]
    ELSE [raised |-> TRUE]

ConsentPage(form, error) ==
    LET kwargs == [client_id |-> form.client_id, redirect_uri |-> form.redirect_uri,
                   scope |-> form.scope, state |-> form.state,
                   code_challenge |-> form.code_challenge,
                   code_challenge_method |-> form.code_challenge_method,
                   error |-> error]
        page == Format(CONSENT_HTML, kwargs)
    IN  IF page.raised
        THEN ServerError
        ELSE [kind |-> "html", status |-> 200,
              client_id |-> form.client_id, redirect_uri |-> form.redirect_uri,
              scope |-> form.scope, state |-> form.state,
              code_challenge |-> form.code_challenge,
              code_challenge_method |-> form.code_challenge_method, error |-> error]

\* mutant: the code is bound to the default scope, not the submitted one
authorize_post_DefaultScope(form, code, codes, t) ==
    LET sep == IF Contains(form.redirect_uri, "?") THEN "&" ELSE "?"
    IN  IF form.action = "deny"
        THEN [AUTH_CODES |-> codes, drew |-> FALSE,
              resp |-> Redirect(form.redirect_uri, sep,
                                <<<<"error", "access_denied">>, <<"state", form.state>>>>)]
        ELSE IF form.scent \notin VALID_SCENTS
        THEN [AUTH_CODES |-> codes, drew |-> FALSE,
              resp |-> ConsentPage(form, "Invalid scent")]
        ELSE [AUTH_CODES |-> DictSet(codes, code,
                                [client_id |-> form.client_id,
                                 redirect_uri |-> form.redirect_uri,
                                 scope |-> "read",
                                 code_challenge |-> form.code_challenge,
                                 code_challenge_method |-> form.code_challenge_method,
                                 expires |-> t + CODE_TTL]),
              drew |-> TRUE,
              resp |-> Redirect(form.redirect_uri, sep,
                                <<<<"code", code>>, <<"state", form.state>>>>)]

\* mutant: the scent is tested before the action
authorize_post_ScentFirst(form, code, codes, t) ==
    LET sep == IF Contains(form.redirect_uri, "?") THEN "&" ELSE "?"
    IN  IF form.scent \notin VALID_SCENTS
        THEN [AUTH_CODES |-> codes, drew |-> FALSE,
              resp |-> ConsentPage(form, "Invalid scent")]
        ELSE IF form.action = "deny"
        THEN [AUTH_CODES |-> codes, drew |-> FALSE,
              resp |-> Redirect(form.redirect_uri, sep,
                                <<<<"error", "access_denied">>, <<"state", form.state>>>>)]
        ELSE [AUTH_CODES |-> DictSet(codes, code,
                                [client_id |-> form.client_id,
                                 redirect_uri |-> form.redirect_uri,
                                 scope |-> form.scope,
                                 code_challenge |-> form.code_challenge,
                                 code_challenge_method |-> form.code_challenge_method,
                                 expires |-> t + CODE_TTL]),
              drew |-> TRUE,
              resp |-> Redirect(form.redirect_uri, sep,
                                <<<<"code", code>>, <<"state", form.state>>>>)]

\* the handler for one form; `code` is what secrets.token_urlsafe returns if called
authorize_post(form, code, codes, t) ==
    LET sep == IF Contains(form.redirect_uri, "?") THEN "&" ELSE "?"
    IN  IF form.action = "deny"
        THEN [AUTH_CODES |-> codes, drew |-> FALSE,
              resp |-> Redirect(form.redirect_uri, sep,
                                <<<<"error", "access_denied">>, <<"state", form.state>>>>)]
        ELSE IF form.scent \notin VALID_SCENTS
        THEN [AUTH_CODES |-> codes, drew |-> FALSE,
              resp |-> ConsentPage(form, "Invalid scent")]
        ELSE [AUTH_CODES |-> DictSet(codes, code,
                                [client_id |-> form.client_id,
                                 redirect_uri |-> form.redirect_uri,
                                 scope |-> form.scope,
                                 code_challenge |-> form.code_challenge,
                                 code_challenge_method |-> form.code_challenge_method,
                                 expires |-> t + CODE_TTL]),
              drew |-> TRUE,
              resp |-> Redirect(form.redirect_uri, sep,
                                <<<<"code", code>>, <<"state", form.state>>>>)]

AuthorizePost(form) ==
    \E code \in token_urlsafe \cup {NONE} :
        LET r == authorize_post(form, code, AUTH_CODES, now)
        IN  /\ r.drew <=> code # NONE
            /\ AUTH_CODES' = r.AUTH_CODES
            /\ used' = IF r.drew THEN used \cup {code} ELSE used
            /\ issued' = IF r.drew THEN DictSet(issued, code, now) ELSE issued
            /\ last' = [op |-> "authorize", req |-> form, resp |-> r.resp]
            /\ UNCHANGED <<TOKENS, redeemed, clock, streams, inflight>>

(***************************************************************************)
(* POST /token                                                             *)
(***************************************************************************)
Json(status, body) == [kind |-> "json", status |-> status, body |-> body]

AccessToken(user_id, scope, expires) ==
    [user_id |-> user_id, scope |-> scope, expires |-> expires]

\* mutant: the code is read from AUTH_CODES and left there
token_endpoint_NoPop(body, token, codes, tokens, t) ==
    IF ParseRaises(body)
    THEN [AUTH_CODES |-> codes, TOKENS |-> tokens, drew |-> FALSE, resp |-> ServerError]
    ELSE
    LET grant_type == ParamsGet(body, "grant_type", NONE)
        code       == ParamsGet(body, "code", "")
    IN  IF grant_type = "authorization_code"
        THEN IF code \notin DOMAIN codes
             THEN [AUTH_CODES |-> codes, TOKENS |-> tokens, drew |-> FALSE,
                   resp |-> Json(400, [error |-> "invalid_grant"])]
             ELSE LET data == codes[code]
                  IN  IF data.expires < t
                      THEN [AUTH_CODES |-> DictDel(codes, code), TOKENS |-> tokens,
                            drew |-> FALSE,
                            resp |-> Json(400, [error |-> "invalid_grant",
                                                error_description |-> "Code expired"])]
                      ELSE [AUTH_CODES |-> codes,
                            TOKENS |-> DictSet(tokens, token,
                                         AccessToken("ada_user", data.scope, t + TOKEN_TTL)),
                            drew |-> TRUE,
                            resp |-> Json(200, [access_token |-> token,
                                                token_type |-> "Bearer",
                                                expires_in |-> TOKEN_TTL,
                                                scope |-> data.scope])]
        ELSE IF grant_type = "refresh_token"
        THEN [AUTH_CODES |-> codes,
              TOKENS |-> DictSet(tokens, token, AccessToken("ada_user", "full", t + TOKEN_TTL)),
              drew |-> TRUE,
              resp |-> Json(200, [access_token |-> token, token_type |-> "Bearer",
                                  expires_in |-> TOKEN_TTL])]
        ELSE IF grant_type = "client_credentials"
        THEN [AUTH_CODES |-> codes,
              TOKENS |-> DictSet(tokens, token, AccessToken("service", "full", t + SERVICE_TTL)),
              drew |-> TRUE,
              resp |-> Json(200, [access_token |-> token, token_type |-> "Bearer",
                                  expires_in |-> SERVICE_TTL])]
        ELSE [AUTH_CODES |-> codes, TOKENS |-> tokens, drew |-> FALSE,
              resp |-> Json(400, [error |-> "unsupported_grant_type"])]

\* mutant: the expiry of the code is not looked at
token_endpoint_NoExpiry(body, token, codes, tokens, t) ==
    IF ParseRaises(body)
    THEN [AUTH_CODES |-> codes, TOKENS |-> tokens, drew |-> FALSE, resp |-> ServerError]
    ELSE
    LET grant_type == ParamsGet(body, "grant_type", NONE)
        code       == ParamsGet(body, "code", "")
    IN  IF grant_type = "authorization_code"
        THEN IF code \notin DOMAIN codes
             THEN [AUTH_CODES |-> codes, TOKENS |-> tokens, drew |-> FALSE,
                   resp |-> Json(400, [error |-> "invalid_grant"])]
             ELSE LET data == codes[code]
                  IN  IF FALSE
                      THEN [AUTH_CODES |-> DictDel(codes, code), TOKENS |-> tokens,
                            drew |-> FALSE,
                            resp |-> Json(400, [error |-> "invalid_grant",
                                                error_description |-> "Code expired"])]
                      ELSE [AUTH_CODES |-> DictDel(codes, code),
                            TOKENS |-> DictSet(tokens, token,
                                         AccessToken("ada_user", data.scope, t + TOKEN_TTL)),
                            drew |-> TRUE,
                            resp |-> Json(200, [access_token |-> token,
                                                token_type |-> "Bearer",
                                                expires_in |-> TOKEN_TTL,
                                                scope |-> data.scope])]
        ELSE IF grant_type = "refresh_token"
        THEN [AUTH_CODES |-> codes,
              TOKENS |-> DictSet(tokens, token, AccessToken("ada_user", "full", t + TOKEN_TTL)),
              drew |-> TRUE,
              resp |-> Json(200, [access_token |-> token, token_type |-> "Bearer",
                                  expires_in |-> TOKEN_TTL])]
        ELSE IF grant_type = "client_credentials"
        THEN [AUTH_CODES |-> codes,
              TOKENS |-> DictSet(tokens, token, AccessToken("service", "full", t + SERVICE_TTL)),
              drew |-> TRUE,
              resp |-> Json(200, [access_token |-> token, token_type |-> "Bearer",
                                  expires_in |-> SERVICE_TTL])]
        ELSE [AUTH_CODES |-> codes, TOKENS |-> tokens, drew |-> FALSE,
              resp |-> Json(400, [error |-> "unsupported_grant_type"])]

\* mutant: the expiry test is off by one second
token_endpoint_LateExpiry(body, token, codes, tokens, t) ==
    IF ParseRaises(body)
    THEN [AUTH_CODES |-> codes, TOKENS |-> tokens, drew |-> FALSE, resp |-> ServerError]
    ELSE
    LET grant_type == ParamsGet(body, "grant_type", NONE)
        code       == ParamsGet(body, "code", "")
    IN  IF grant_type = "authorization_code"
        THEN IF code \notin DOMAIN codes
             THEN [AUTH_CODES |-> codes, TOKENS |-> tokens, drew |-> FALSE,
                   resp |-> Json(400, [error |-> "invalid_grant"])]
             ELSE LET data == codes[code]
                  IN  IF data.expires + 1 < t
                      THEN [AUTH_CODES |-> DictDel(codes, code), TOKENS |-> tokens,
                            drew |-> FALSE,
                            resp |-> Json(400, [error |-> "invalid_grant",
                                                error_description |-> "Code expired"])]
                      ELSE [AUTH_CODES |-> DictDel(codes, code),
                            TOKENS |-> DictSet(tokens, token,
                                         AccessToken("ada_user", data.scope, t + TOKEN_TTL)),
                            drew |-> TRUE,
                            resp |-> Json(200, [access_token |-> token,
                                                token_type |-> "Bearer",
                                                expires_in |-> TOKEN_TTL,
                                                scope |-> data.scope])]
        ELSE IF grant_type = "refresh_token"
        THEN [AUTH_CODES |-> codes,
              TOKENS |-> DictSet(tokens, token, AccessToken("ada_user", "full", t + TOKEN_TTL)),
              drew |-> TRUE,
              resp |-> Json(200, [access_token |-> token, token_type |-> "Bearer",
                                  expires_in |-> TOKEN_TTL])]
        ELSE IF grant_type = "client_credentials"
        THEN [AUTH_CODES |-> codes,
              TOKENS |-> DictSet(tokens, token, AccessToken("service", "full", t + SERVICE_TTL)),
              drew |-> TRUE,
              resp |-> Json(200, [access_token |-> token, token_type |-> "Bearer",
                                  expires_in |-> SERVICE_TTL])]
        ELSE [AUTH_CODES |-> codes, TOKENS |-> tokens, drew |-> FALSE,
              resp |-> Json(400, [error |-> "unsupported_grant_type"])]

\* mutant: the token gets the scope of the other grants, not the code's
token_endpoint_FullScope(body, token, codes, tokens, t) ==
    IF ParseRaises(body)
    THEN [AUTH_CODES |-> codes, TOKENS |-> tokens, drew |-> FALSE, resp |-> ServerError]
    ELSE
    LET grant_type == ParamsGet(body, "grant_type", NONE)
        code       == ParamsGet(body, "code", "")
    IN  IF grant_type = "authorization_code"
        THEN IF code \notin DOMAIN codes
             THEN [AUTH_CODES |-> codes, TOKENS |-> tokens, drew |-> FALSE,
                   resp |-> Json(400, [error |-> "invalid_grant"])]
             ELSE LET data == codes[code]
                  IN  IF data.expires < t
                      THEN [AUTH_CODES |-> DictDel(codes, code), TOKENS |-> tokens,
                            drew |-> FALSE,
                            resp |-> Json(400, [error |-> "invalid_grant",
                                                error_description |-> "Code expired"])]
                      ELSE [AUTH_CODES |-> DictDel(codes, code),
                            TOKENS |-> DictSet(tokens, token,
                                         AccessToken("ada_user", "full", t + TOKEN_TTL)),
                            drew |-> TRUE,
                            resp |-> Json(200, [access_token |-> token,
                                                token_type |-> "Bearer",
                                                expires_in |-> TOKEN_TTL,
                                                scope |-> data.scope])]
        ELSE IF grant_type = "refresh_token"
        THEN [AUTH_CODES |-> codes,
              TOKENS |-> DictSet(tokens, token, AccessToken("ada_user", "full", t + TOKEN_TTL)),
              drew |-> TRUE,
              resp |-> Json(200, [access_token |-> token, token_type |-> "Bearer",
                                  expires_in |-> TOKEN_TTL])]
        ELSE IF grant_type = "client_credentials"
        THEN [AUTH_CODES |-> codes,
              TOKENS |-> DictSet(tokens, token, AccessToken("service", "full", t + SERVICE_TTL)),
              drew |-> TRUE,
              resp |-> Json(200, [access_token |-> token, token_type |-> "Bearer",
                                  expires_in |-> SERVICE_TTL])]
        ELSE [AUTH_CODES |-> codes, TOKENS |-> tokens, drew |-> FALSE,
              resp |-> Json(400, [error |-> "unsupported_grant_type"])]

\* mutant: the expiry is tested before the code is popped
token_endpoint_ExpiredKept(body, token, codes, tokens, t) ==
    IF ParseRaises(body)
    THEN [AUTH_CODES |-> codes, TOKENS |-> tokens, drew |-> FALSE, resp |-> ServerError]
    ELSE
    LET grant_type == ParamsGet(body, "grant_type", NONE)
        code       == ParamsGet(body, "code", "")
    IN  IF grant_type = "authorization_code"
        THEN IF code \notin DOMAIN codes
             THEN [AUTH_CODES |-> codes, TOKENS |-> tokens, drew |-> FALSE,
                   resp |-> Json(400, [error |-> "invalid_grant"])]
             ELSE LET data == codes[code]
                  IN  IF data.expires < t
                      THEN [AUTH_CODES |-> codes, TOKENS |-> tokens,
                            drew |-> FALSE,
                            resp |-> Json(400, [error |-> "invalid_grant",
                                                error_description |-> "Code expired"])]
                      ELSE [AUTH_CODES |-> DictDel(codes, code),
                            TOKENS |-> DictSet(tokens, token,
                                         AccessToken("ada_user", data.scope, t + TOKEN_TTL)),
                            drew |-> TRUE,
                            resp |-> Json(200, [access_token |-> token,
                                                token_type |-> "Bearer",
                                                expires_in |-> TOKEN_TTL,
                                                scope |-> data.scope])]
        ELSE IF grant_type = "refresh_token"
        THEN [AUTH_CODES |-> codes,
              TOKENS |-> DictSet(tokens, token, AccessToken("ada_user", "full", t + TOKEN_TTL)),
              drew |-> TRUE,
              resp |-> Json(200, [access_token |-> token, token_type |-> "Bearer",
                                  expires_in |-> TOKEN_TTL])]
        ELSE IF grant_type = "client_credentials"
        THEN [AUTH_CODES |-> codes,
              TOKENS |-> DictSet(tokens, token, AccessToken("service", "full", t + SERVICE_TTL)),
              drew |-> TRUE,
              resp |-> Json(200, [access_token |-> token, token_type |-> "Bearer",
                                  expires_in |-> SERVICE_TTL])]
        ELSE [AUTH_CODES |-> codes, TOKENS |-> tokens, drew |-> FALSE,
              resp |-> Json(400, [error |-> "unsupported_grant_type"])]

\* mutant: a refresh_token grant also renews the tokens already stored
token_endpoint_RefreshInPlace(body, token, codes, tokens, t) ==
    IF ParseRaises(body)
    THEN [AUTH_CODES |-> codes, TOKENS |-> tokens, drew |-> FALSE, resp |-> ServerError]
    ELSE
    LET grant_type == ParamsGet(body, "grant_type", NONE)
        code       == ParamsGet(body, "code", "")
    IN  IF grant_type = "authorization_code"
        THEN IF code \notin DOMAIN codes
             THEN [AUTH_CODES |-> codes, TOKENS |-> tokens, drew |-> FALSE,
                   resp |-> Json(400, [error |-> "invalid_grant"])]
             ELSE LET data == codes[code]
                  IN  IF data.expires < t
                      THEN [AUTH_CODES |-> DictDel(codes, code), TOKENS |-> tokens,
                            drew |-> FALSE,
                            resp |-> Json(400, [error |-> "invalid_grant",
                                                error_description |-> "Code expired"])]
                      ELSE [AUTH_CODES |-> DictDel(codes, code),
                            TOKENS |-> DictSet(tokens, token,
                                         AccessToken("ada_user", data.scope, t + TOKEN_TTL)),
                            drew |-> TRUE,
                            resp |-> Json(200, [access_token |-> token,
                                                token_type |-> "Bearer",
                                                expires_in |-> TOKEN_TTL,
                                                scope |-> data.scope])]
        ELSE IF grant_type = "refresh_token"
        THEN [AUTH_CODES |-> codes,
              TOKENS |-> DictSet([k \in DOMAIN tokens |->
                                     [tokens[k] EXCEPT !.expires = t + TOKEN_TTL]],
                                 token, AccessToken("ada_user", "full", t + TOKEN_TTL)),
              drew |-> TRUE,
              resp |-> Json(200, [access_token |-> token, token_type |-> "Bearer",
                                  expires_in |-> TOKEN_TTL])]
        ELSE IF grant_type = "client_credentials"
        THEN [AUTH_CODES |-> codes,
              TOKENS |-> DictSet(tokens, token, AccessToken("service", "full", t + SERVICE_TTL)),
              drew |-> TRUE,
              resp |-> Json(200, [access_token |-> token, token_type |-> "Bearer",
                                  expires_in |-> SERVICE_TTL])]
        ELSE [AUTH_CODES |-> codes, TOKENS |-> tokens, drew |-> FALSE,
              resp |-> Json(400, [error |-> "unsupported_grant_type"])]

\* the handler after `await request.body()`; `token` is what
\* secrets.token_urlsafe returns if called
token_endpoint(body, token, codes, tokens, t) ==
    IF ParseRaises(body)
    THEN [AUTH_CODES |-> codes, TOKENS |-> tokens, drew |-> FALSE, resp |-> ServerError]
    ELSE
    LET grant_type == ParamsGet(body, "grant_type", NONE)
        code       == ParamsGet(body, "code", "")
    IN  IF grant_type = "authorization_code"
        THEN IF code \notin DOMAIN codes
             THEN [AUTH_CODES |-> codes, TOKENS |-> tokens, drew |-> FALSE,
                   resp |-> Json(400, [error |-> "invalid_grant"])]
             ELSE LET data == codes[code]
                  IN  IF data.expires < t
                      THEN [AUTH_CODES |-> DictDel(codes, code), TOKENS |-> tokens,
                            drew |-> FALSE,
                            resp |-> Json(400, [error |-> "invalid_grant",
                                                error_description |-> "Code expired"])]
                      ELSE [AUTH_CODES |-> DictDel(codes, code),
                            TOKENS |-> DictSet(tokens, token,
                                         AccessToken("ada_user", data.scope, t + TOKEN_TTL)),
                            drew |-> TRUE,
                            resp |-> Json(200, [access_token |-> token,
                                                token_type |-> "Bearer",
                                                expires_in |-> TOKEN_TTL,
                                                scope |-> data.scope])]
        ELSE IF grant_type = "refresh_token"
        THEN [AUTH_CODES |-> codes,
              TOKENS |-> DictSet(tokens, token, AccessToken("ada_user", "full", t + TOKEN_TTL)),
              drew |-> TRUE,
              resp |-> Json(200, [access_token |-> token, token_type |-> "Bearer",
                                  expires_in |-> TOKEN_TTL])]
        ELSE IF grant_type = "client_credentials"
        THEN [AUTH_CODES |-> codes,
              TOKENS |-> DictSet(tokens, token, AccessToken("service", "full", t + SERVICE_TTL)),
              drew |-> TRUE,
              resp |-> Json(200, [access_token |-> token, token_type |-> "Bearer",
                                  expires_in |-> SERVICE_TTL])]
        ELSE [AUTH_CODES |-> codes, TOKENS |-> tokens, drew |-> FALSE,
              resp |-> Json(400, [error |-> "unsupported_grant_type"])]

\* the handler from the return of `await request.body()` to its own return:
\* it does not suspend again, so nothing else runs in between
TokenHandle(body) ==
    \E token \in token_urlsafe \cup {NONE} :
        LET r    == token_endpoint(body, token, AUTH_CODES, TOKENS, now)
            mint == r.drew /\ ~ParseRaises(body)
                      /\ ParamsGet(body, "grant_type", NONE) = "authorization_code"
        IN  /\ r.drew <=> token # NONE
            /\ AUTH_CODES' = r.AUTH_CODES
            /\ TOKENS' = r.TOKENS
            /\ used' = IF r.drew THEN used \cup {token} ELSE used
            /\ redeemed' = IF mint THEN DictSet(redeemed, ParamsGet(body, "code", ""), now)
                           ELSE redeemed
            /\ last' = [op |-> "token", req |-> body, resp |-> r.resp]
            /\ UNCHANGED <<issued, clock, streams>>

\* one request served with no other in between: nothing is shared before
\* `await request.body()` returns
TokenPost(body) ==
    /\ TokenHandle(body)
    /\ UNCHANGED inflight

\* a request arrives and its handler suspends in `await request.body()`
TokenReceive(body) ==
    /\ BagCardinality(inflight) < MaxInflight
    /\ inflight' = inflight (+) SetToBag({body})
    /\ UNCHANGED <<stores, clock, streams, last>>

\* mutant: the handler suspends between the membership test and the pop, so
\* a request resumed while a duplicate is in flight leaves the code to it
TokenRun_TestThenPop(body) ==
    /\ BagIn(body, inflight)
    /\ \E token \in token_urlsafe \cup {NONE} :
        LET dup  == CopiesIn(body, inflight) > 1
            r    == token_endpoint(body, token, AUTH_CODES, TOKENS, now)
            mint == r.drew /\ ~ParseRaises(body)
                      /\ ParamsGet(body, "grant_type", NONE) = "authorization_code"
        IN  /\ r.drew <=> token # NONE
            /\ AUTH_CODES' = IF dup /\ mint THEN AUTH_CODES ELSE r.AUTH_CODES
            /\ TOKENS' = r.TOKENS
            /\ used' = IF r.drew THEN used \cup {token} ELSE used
            /\ redeemed' = IF mint THEN DictSet(redeemed, ParamsGet(body, "code", ""), now)
                           ELSE redeemed
            /\ last' = [op |-> "token", req |-> body, resp |-> r.resp]
            /\ UNCHANGED <<issued, clock, streams>>
    /\ inflight' = inflight (-) SetToBag({body})

\* the body of a request in flight is complete and its handler is resumed
TokenRun(body) ==
    /\ BagIn(body, inflight)
    /\ TokenHandle(body)
    /\ inflight' = inflight (-) SetToBag({body})

(***************************************************************************)
(* GET /sse                                                                *)
(***************************************************************************)
Absent == [present |-> FALSE, parts |-> <<>>]
Hdr(parts) == [present |-> TRUE, parts |-> parts]

\* Authorization headers a client may send
Headers ==
    {Absent, Hdr(<<>>), Hdr(<<"Bearer ">>), Hdr(<<ValName[1]>>), Hdr(<<"Basic ", ValName[1]>>)}
    \cup { Hdr(<<"Bearer ", v>>) : v \in Vals }

NOT_A_TOKEN == "<longer string>"

\* the string a sequence of atoms spells; only a single atom can spell a token
Spell(parts) ==
    IF parts = <<>> THEN "" ELSE IF Len(parts) = 1 THEN parts[1] ELSE NOT_A_TOKEN

\* authorization.replace("Bearer ", "")
StripBearer(parts) == Spell(SelectSeq(parts, LAMBDA x : x # "Bearer "))

\* Python truthiness of Optional[str]
Truthy(h) == h.present /\ h.parts # <<>>

\* mutant: the expiry of the token is not looked at
sse_endpoint_NoExpiry(h, tokens, t) ==
    IF Truthy(h)
    THEN LET token == StripBearer(h.parts)
         IN  IF token \in DOMAIN tokens
             THEN [authorized |-> TRUE,  error_msg |-> NONE]
             ELSE [authorized |-> FALSE, error_msg |-> "invalid_token"]
    ELSE [authorized |-> TRUE, error_msg |-> NONE]

\* the decision sse_endpoint takes before it builds the StreamingResponse
sse_endpoint(h, tokens, t) ==
    IF Truthy(h)
    THEN LET token == StripBearer(h.parts)
         IN  IF token \in DOMAIN tokens /\ tokens[token].expires > t
             THEN [authorized |-> TRUE,  error_msg |-> NONE]
             ELSE [authorized |-> FALSE, error_msg |-> "invalid_token"]
    ELSE [authorized |-> TRUE, error_msg |-> NONE]

StreamingResponse == [kind |-> "stream", status |-> 200, media_type |-> "text/event-stream"]

Event(name, data) == [event |-> name, data |-> data]

\* the response body receives one more event
Emit(log, e) == IF Len(log) < MaxEvents THEN Append(log, e) ELSE log

\* a connection arrives: sse_endpoint runs and hands the generator to the response
SseOpen(h) ==
    LET d == sse_endpoint(h, TOKENS, now)
    IN  /\ pc \in {"closed", "done", "aborted"}
        /\ pc' = "start"
        /\ request' = h
        /\ authorized' = d.authorized
        /\ error_msg' = d.error_msg
        /\ events' = <<>>
        /\ last' = [op |-> "sse", req |-> h, resp |-> StreamingResponse]
        /\ UNCHANGED <<stores, clock, inflight>>

\* mutant: the authorization is reported before the endpoint is announced
YieldEndpoint_AuthFirst ==
    /\ pc = "start"
    /\ events' = IF authorized THEN Emit(events, Event("endpoint", "message_url"))
                 ELSE Emit(events, Event("error", "invalid_token"))
    /\ pc' = IF authorized THEN "at_endpoint" ELSE "at_error"
    /\ UNCHANGED <<stores, clock, request, authorized, error_msg, last, inflight>>

\* sse_stream, first resumption: yield the endpoint event
YieldEndpoint ==
    /\ pc = "start"
    /\ events' = Emit(events, Event("endpoint", "message_url"))
    /\ pc' = "at_endpoint"
    /\ UNCHANGED <<stores, clock, request, authorized, error_msg, last, inflight>>

\* sse_stream, `if not authorized`: yield the error event
YieldError ==
    /\ pc = "at_endpoint"
    /\ ~authorized
    /\ events' = Emit(events, Event("error", IF error_msg # NONE THEN error_msg
                                              ELSE "unauthorized"))
    /\ pc' = "at_error"
    /\ UNCHANGED <<stores, clock, request, authorized, error_msg, last, inflight>>

\* mutant: the `return` is missing and the generator falls through
ReturnAfterError_FallThrough ==
    /\ pc = "at_error"
    /\ events' = Emit(events, Event("connected", "ada-mcp"))
    /\ pc' = "at_connected"
    /\ UNCHANGED <<stores, clock, request, authorized, error_msg, last, inflight>>

\* sse_stream, `return` after the error event
ReturnAfterError ==
    /\ pc = "at_error"
    /\ pc' = "done"
    /\ UNCHANGED <<stores, clock, request, authorized, error_msg, events, last, inflight>>

\* sse_stream, authorized: yield the connected event
YieldConnected ==
    /\ pc = "at_endpoint"
    /\ authorized
    /\ events' = Emit(events, Event("connected", "ada-mcp"))
    /\ pc' = "at_connected"
    /\ UNCHANGED <<stores, clock, request, authorized, error_msg, last, inflight>>

\* mutant: the keep-alive loop runs its body once
Sleep_Once ==
    /\ pc = "at_connected"
    /\ pc' = "sleeping"
    /\ UNCHANGED <<stores, clock, request, authorized, error_msg, events, last, inflight>>

\* sse_stream, `while True: await asyncio.sleep(30)`
Sleep ==
    /\ pc \in {"at_connected", "at_ping"}
    /\ pc' = "sleeping"
    /\ UNCHANGED <<stores, clock, request, authorized, error_msg, events, last, inflight>>

\* mutant: the token of the request is looked up again before every ping
YieldPing_Recheck ==
    /\ pc = "sleeping"
    /\ IF sse_endpoint(request, TOKENS, now).authorized
       THEN /\ events' = Emit(events, Event("ping", now))
            /\ pc' = "at_ping"
       ELSE /\ events' = Emit(events, Event("error", "invalid_token"))
            /\ pc' = "done"
    /\ UNCHANGED <<stores, clock, request, authorized, error_msg, last, inflight>>

\* sse_stream, the sleep is over: yield a ping event
YieldPing ==
    /\ pc = "sleeping"
    /\ events' = Emit(events, Event("ping", now))
    /\ pc' = "at_ping"
    /\ UNCHANGED <<stores, clock, request, authorized, error_msg, last, inflight>>

\* mutant: CancelledError is not caught and leaves the generator
CancelInSleep_Uncaught ==
    /\ pc = "sleeping"
    /\ pc' = "aborted"
    /\ UNCHANGED <<stores, clock, request, authorized, error_msg, events, last, inflight>>

\* the peer disconnects while the generator sleeps: CancelledError is raised
\* in the sleep, caught, and the generator runs to its end
CancelInSleep ==
    /\ pc = "sleeping"
    /\ pc' = "done"
    /\ UNCHANGED <<stores, clock, request, authorized, error_msg, events, last, inflight>>

\* the peer disconnects while the generator is suspended at a yield (or was
\* never started): the response stops iterating and the generator is dropped
CancelAtYield ==
    /\ pc \in {"start", "at_endpoint", "at_error", "at_connected", "at_ping"}
    /\ pc' = "aborted"
    /\ UNCHANGED <<stores, clock, request, authorized, error_msg, events, last, inflight>>

Cancel == CancelInSleep \/ CancelAtYield

(***************************************************************************)
(* POST /message                                                           *)
(***************************************************************************)
JObject(d) == [kind |-> "object", obj |-> d]
JArray     == [kind |-> "array"]
Malformed  == [kind |-> "malformed"]

Methods == {"initialize", "tools/list", "tools/call", "notifications/initialized", "bogus"}

ParamChoices ==
    { JObject([name |-> "search", arguments |-> "{query}"]),
      JObject([name |-> "doesnotexist", arguments |-> "{}"]),
      JObject([arguments |-> "{query}"]),
      JObject([name |-> "fetch"]),
      JArray }

\* request bodies posted to /message
MsgBodies ==
    {Malformed, JArray, JObject([id |-> "1"]), JObject(<<>>)}
    \cup { JObject([method |-> m]) : m \in Methods }
    \cup { JObject([method |-> m, id |-> "1"]) : m \in Methods }
    \cup { JObject([method |-> "tools/call", params |-> p]) : p \in ParamChoices }
    \cup { JObject([method |-> "tools/call", params |-> p, id |-> "1"]) : p \in ParamChoices }

\* dict.get(key, default)
Get(d, key, default) == IF key \in DOMAIN d THEN d[key] ELSE default

RpcResult(id, result) == Json(200, [jsonrpc |-> "2.0", id |-> id, result |-> result])
RpcError(id, code, message) ==
    Json(200, [jsonrpc |-> "2.0", id |-> id, error |-> [code |-> code, message |-> message]])

NoContent == [kind |-> "empty", status |-> 204]

\* mutant: an undecodable body is reported as an invalid request
message_endpoint_InvalidRequest(body, t) ==
    IF body.kind = "malformed"
    THEN RpcError(NONE, -32600, <<"Invalid Request">>)
    ELSE IF body.kind # "object"
    THEN ServerError
    ELSE
    LET method == Get(body.obj, "method", "")
        params == Get(body.obj, "params", JObject(<<>>))
        req_id == Get(body.obj, "id", NONE)
    IN  IF method = "notifications/initialized"
        THEN NoContent
        ELSE IF method = "initialize"
        THEN RpcResult(req_id,
                 [protocolVersion |-> "2024-11-05",
                  capabilities |-> [tools |-> [listChanged |-> TRUE]],
                  serverInfo |-> [name |-> "ada-mcp", version |-> "1.0.0"]])
        ELSE IF method = "tools/list"
        THEN RpcResult(req_id, [tools |-> TOOLS])
        ELSE IF method = "tools/call"
        THEN IF params.kind # "object"
             THEN ServerError
             ELSE LET tool_name == Get(params.obj, "name", "")
                      args      == Get(params.obj, "arguments", "{}")
                  IN  RpcResult(req_id,
                          [content |-> << [type |-> "text",
                                           text |-> [tool |-> tool_name, args |-> args,
                                                     result |-> <<"Ada processed ", tool_name,
                                                                  " with ", args>>,
                                                     timestamp |-> t]] >>])
        ELSE RpcError(req_id, -32601, <<"Method not found: ", method>>)

\* the handler; nothing it does after `await request.json()` touches the stores
message_endpoint(body, t) ==
    IF body.kind = "malformed"
    THEN RpcError(NONE, -32700, <<"Parse error">>)
    ELSE IF body.kind # "object"
    THEN ServerError
    ELSE
    LET method == Get(body.obj, "method", "")
        params == Get(body.obj, "params", JObject(<<>>))
        req_id == Get(body.obj, "id", NONE)
    IN  IF method = "notifications/initialized"
        THEN NoContent
        ELSE IF method = "initialize"
        THEN RpcResult(req_id,
                 [protocolVersion |-> "2024-11-05",
                  capabilities |-> [tools |-> [listChanged |-> TRUE]],
                  serverInfo |-> [name |-> "ada-mcp", version |-> "1.0.0"]])
        ELSE IF method = "tools/list"
        THEN RpcResult(req_id, [tools |-> TOOLS])
        ELSE IF method = "tools/call"
        THEN IF params.kind # "object"
             THEN ServerError
             ELSE LET tool_name == Get(params.obj, "name", "")
                      args      == Get(params.obj, "arguments", "{}")
                  IN  RpcResult(req_id,
                          [content |-> << [type |-> "text",
                                           text |-> [tool |-> tool_name, args |-> args,
                                                     result |-> <<"Ada processed ", tool_name,
                                                                  " with ", args>>,
                                                     timestamp |-> t]] >>])
        ELSE RpcError(req_id, -32601, <<"Method not found: ", method>>)

\* mutant: without a token in the store every message is refused
MessagePost_NeedsToken(body) ==
    /\ last' = [op |-> "message", req |-> body,
                resp |-> IF DOMAIN TOKENS = {}
                         THEN RpcError(NONE, -32001, <<"Unauthorized">>)
                         ELSE message_endpoint(body, now)]
    /\ UNCHANGED <<stores, clock, streams, inflight>>

MessagePost(body) ==
    /\ last' = [op |-> "message", req |-> body, resp |-> message_endpoint(body, now)]
    /\ UNCHANGED <<stores, clock, streams, inflight>>

(***************************************************************************)
(* The clock                                                               *)
(***************************************************************************)
Tick(d) ==
    /\ ticks < MaxTicks
    /\ now' = now + d
    /\ ticks' = ticks + 1
    /\ UNCHANGED <<stores, streams, last, inflight>>

(***************************************************************************)
(* Specification                                                           *)
(***************************************************************************)
Init ==
    /\ now = 0
    /\ ticks = 0
    /\ AUTH_CODES = <<>>
    /\ TOKENS = <<>>
    /\ used = {}
    /\ issued = <<>>
    /\ redeemed = <<>>
    /\ pc = "closed"
    /\ request = Absent
    /\ authorized = FALSE
    /\ error_msg = NONE
    /\ events = <<>>
    /\ inflight = EmptyBag
    /\ last = NoCall

StreamStep ==
    \/ YieldEndpoint
    \/ YieldError
    \/ ReturnAfterError
    \/ YieldConnected
    \/ Sleep
    \/ YieldPing

\* the whole server
Next ==
    \/ \E form \in Forms : AuthorizePost(form)
    \/ \E body \in TokenBodies : TokenPost(body)
    \/ \E h \in Headers : SseOpen(h)
    \/ StreamStep
    \/ Cancel
    \/ \E body \in MsgBodies : MessagePost(body)
    \/ \E d \in Steps : Tick(d)

Spec == Init /\ [][Next]_vars

\* the OAuth endpoints alone
OAuthNext ==
    \/ \E form \in Forms : AuthorizePost(form)
    \/ \E body \in TokenBodies : TokenPost(body)
    \/ \E d \in OAuthSteps : Tick(d)

OAuthSpec == Init /\ [][OAuthNext]_vars

\* the streams, with the token endpoint that fills TOKENS
StreamNext ==
    \/ \E body \in GrantBodies : TokenPost(body)
    \/ \E h \in Headers : SseOpen(h)
    \/ StreamStep
    \/ Cancel
    \/ \E d \in StreamSteps : Tick(d)

StreamSpec == Init /\ [][StreamNext]_vars

\* the response keeps iterating an open stream's generator
StreamFairSpec == StreamSpec /\ WF_vars(StreamStep)

\* authorization_code requests in flight together, between the other operations
RaceForms == {form \in Forms : form.scent \in VALID_SCENTS /\ form.action = "auth"}
RaceBodies == { <<<<"grant_type", "authorization_code">>, <<"code", c>>>> : c \in Vals }

RaceNext ==
    \/ \E form \in RaceForms : AuthorizePost(form)
    \/ \E body \in RaceBodies : TokenReceive(body)
    \/ \E body \in RaceBodies : TokenRun(body)
    \/ \E h \in {Absent, Hdr(<<"Bearer ">>)} : SseOpen(h)
    \/ StreamStep
    \/ Cancel
    \/ MessagePost(JObject([method |-> "initialize", id |-> "1"]))
    \/ \E d \in OAuthSteps : Tick(d)

RaceSpec == Init /\ [][RaceNext]_vars

\* every operation of the server, on the requests that fill and read the stores
ServerBodies == RaceBodies \cup GrantBodies
ServerHeaders == {Absent} \cup { Hdr(<<"Bearer ", v>>) : v \in Vals }
ServerMsgBodies ==
    { Malformed,
      JObject([method |-> "initialize", id |-> "1"]),
      JObject([method |-> "tools/call", id |-> "1",
               params |-> JObject([name |-> "search", arguments |-> "{query}"])]),
      JObject([method |-> "bogus", id |-> "1"]) }

ServerNext ==
    \/ \E form \in RaceForms : AuthorizePost(form)
    \/ \E body \in ServerBodies : TokenPost(body)
    \/ \E h \in ServerHeaders : SseOpen(h)
    \/ StreamStep
    \/ Cancel
    \/ \E body \in ServerMsgBodies : MessagePost(body)
    \/ \E d \in OAuthSteps : Tick(d)

ServerSpec == Init /\ [][ServerNext]_vars

\* the JSON-RPC dispatcher alone
MsgNext ==
    \/ \E body \in MsgBodies : MessagePost(body)
    \/ \E d \in Steps : Tick(d)

MsgSpec == Init /\ [][MsgNext]_vars

TypeOK ==
    /\ now \in Nat
    /\ ticks \in 0..MaxTicks
    /\ DOMAIN AUTH_CODES \subseteq used
    /\ DOMAIN TOKENS \subseteq used
    /\ DOMAIN issued \subseteq used
    /\ DOMAIN redeemed \subseteq DOMAIN issued

(***************************************************************************)
(* Properties of the stream                                                *)
(***************************************************************************)
EventNames == [i \in DOMAIN events |-> events[i].event]

IsPrefix(a, b) == Len(a) <= Len(b) /\ \A i \in DOMAIN a : a[i] = b[i]

\* the header of the last call names a token of the store that has expired
LastOpenExpired ==
    /\ last.op = "sse"
    /\ Truthy(last.req)
    /\ StripBearer(last.req.parts) \in DOMAIN TOKENS
    /\ TOKENS[StripBearer(last.req.parts)].expires <= now

\* C1: on every stream, whatever the credential, the first event yielded is
\* `endpoint`; no connected, error or ping event comes before it, and a
\* generator that has been resumed at all has yielded it.
C1_EndpointFirst ==
    /\ events # <<>> => events[1].event = "endpoint"
    /\ pc \in {"at_endpoint", "at_error", "at_connected", "sleeping", "at_ping"}
           => events # <<>>
    /\ \A i \in DOMAIN events : i > 1 => events[i].event # "endpoint"

\* a stream opened with an expired token has yielded endpoint and then error
C1_Witness ==
    /\ LastOpenExpired
    /\ pc = "at_error"
    /\ EventNames = <<"endpoint", "error">>

\* C3: an unauthorized stream yields endpoint, then one error event carrying
\* the reason, and then ends: its events are always a prefix of that pair, it
\* never reaches the connected or ping part of the generator, and a generator
\* that ran to its end yielded exactly the pair.
C3_UnauthorizedSequence ==
    (pc # "closed" /\ ~authorized) =>
        /\ IsPrefix(events, << Event("endpoint", "message_url"),
                               Event("error", "invalid_token") >>)
        /\ pc \in {"start", "at_endpoint", "at_error", "done", "aborted"}
        /\ pc = "start" => events = <<>>
        /\ pc = "at_endpoint" => Len(events) = 1
        /\ pc \in {"at_error", "done"} => Len(events) = 2

\* an unauthorized generator ran to its end
C3_Witness ==
    /\ ~authorized
    /\ pc = "done"
    /\ EventNames = <<"endpoint", "error">>

\* the events of an authorized stream: endpoint, connected, then pings only
AuthorizedShape ==
    \A i \in DOMAIN events :
        events[i].event = (IF i = 1 THEN "endpoint" ELSE IF i = 2 THEN "connected" ELSE "ping")

\* C4: an authorized stream yields exactly one connected event, after endpoint
\* and before every ping, and never an error event; and as long as the peer
\* does not disconnect, another ping is eventually yielded.
C4_ConnectedThenPings ==
    /\ []((pc # "closed" /\ authorized) => AuthorizedShape)
    /\ (authorized /\ pc = "at_endpoint") ~> (pc \in {"at_connected", "aborted"})
    /\ (pc = "at_connected") ~> (pc \in {"at_ping", "done", "aborted"})
    /\ (pc = "sleeping") ~> (pc \in {"at_ping", "done"})
    /\ (pc = "at_ping") ~> (pc \in {"sleeping", "aborted"})

\* an authorized stream has yielded its second ping
C4_Witness ==
    /\ authorized
    /\ pc = "at_ping"
    /\ EventNames = <<"endpoint", "connected", "ping", "ping">>

\* no credential: the header is absent or empty
NoCredential(h) == ~h.present \/ h.parts = <<>>

\* C5: a stream is opened authorized exactly when no credential is presented
\* or the credential is a key of TOKENS whose expiry is later than the time
\* of the open; otherwise it is opened unauthorized with reason invalid_token.
C5_StreamAuthorization ==
    [][(last'.op = "sse" /\ SseOpen(last'.req)) =>
              LET h    == last'.req
                  cred == StripBearer(h.parts)
                  live == cred \in DOMAIN TOKENS /\ TOKENS[cred].expires > now
              IN  /\ authorized' <=> (NoCredential(h) \/ live)
                  /\ ~authorized' => error_msg' = "invalid_token"
                  /\ authorized' => error_msg' = NONE]_vars

\* a stream has just been refused for a token at the very end of its lifetime
C5_Witness ==
    /\ LastOpenExpired
    /\ TOKENS[StripBearer(last.req.parts)].expires = now
    /\ pc = "start"
    /\ ~authorized
    /\ error_msg = "invalid_token"

(***************************************************************************)
(* Properties of the OAuth endpoints                                       *)
(***************************************************************************)
\* the body parses to an authorization_code request
IsCodeRequest(body) ==
    ~ParseRaises(body) /\ ParamsGet(body, "grant_type", NONE) = "authorization_code"

\* the code such a request presents
CodeOf(body) == ParamsGet(body, "code", "")

InvalidGrant(resp) ==
    resp.kind = "json" /\ resp.status = 400 /\ resp.body.error = "invalid_grant"

\* C2: once a code has been redeemed, every later authorization_code request
\* presenting it is answered invalid_grant and mints no token.
C2_SingleUse ==
    [][(/\ last'.op = "token"
        /\ TokenPost(last'.req)
        /\ IsCodeRequest(last'.req)
        /\ CodeOf(last'.req) \in DOMAIN redeemed) =>
              /\ last'.resp = Json(400, [error |-> "invalid_grant"])
              /\ TOKENS' = TOKENS
              /\ used' = used
              /\ redeemed' = redeemed]_vars

\* a redeemed code has been presented again and refused
C2_Witness ==
    /\ last.op = "token"
    /\ IsCodeRequest(last.req)
    /\ CodeOf(last.req) \in DOMAIN redeemed
    /\ last.resp = Json(400, [error |-> "invalid_grant"])

\* C6: an authorization_code request presenting a code issued more than
\* CODE_TTL seconds ago is answered invalid_grant and mints no token, whether
\* or not the code was redeemed before.
C6_ExpiredCodeRefused ==
    [][(/\ last'.op = "token"
        /\ TokenPost(last'.req)
        /\ IsCodeRequest(last'.req)
        /\ CodeOf(last'.req) \in DOMAIN issued
        /\ issued[CodeOf(last'.req)] + CODE_TTL < now) =>
              /\ InvalidGrant(last'.resp)
              /\ TOKENS' = TOKENS
              /\ redeemed' = redeemed]_vars

\* a code that was never redeemed has been refused as expired
C6_Witness ==
    /\ last.op = "token"
    /\ IsCodeRequest(last.req)
    /\ CodeOf(last.req) \in DOMAIN issued
    /\ CodeOf(last.req) \notin DOMAIN redeemed
    /\ issued[CodeOf(last.req)] + CODE_TTL < now
    /\ last.resp = Json(400, [error |-> "invalid_grant", error_description |-> "Code expired"])

\* C9, as claimed: the code store holds no code whose expiry has passed.
C9_NoExpiredCodeStored ==
    \A c \in DOMAIN AUTH_CODES : AUTH_CODES[c].expires >= now

\* C9, amended: a code is never redeemed after its expiry. A code of the store
\* expires CODE_TTL seconds after it was issued and may stay in the store past
\* that time, but every redemption happened no later than the expiry, and a
\* redeemed code is no longer in the store.
C9_NeverRedeemedAfterExpiry ==
    /\ \A c \in DOMAIN AUTH_CODES :
          c \in DOMAIN issued /\ AUTH_CODES[c].expires = issued[c] + CODE_TTL
    /\ \A c \in DOMAIN redeemed :
          /\ redeemed[c] <= issued[c] + CODE_TTL
          /\ c \notin DOMAIN AUTH_CODES

\* a code was redeemed at the very end of its lifetime, and that time is past
C9_Witness ==
    \E c \in DOMAIN redeemed : redeemed[c] = issued[c] + CODE_TTL /\ redeemed[c] < now

\* C10: a consent that is not a denial and carries an accepted scent adds
\* exactly one new code, bound to the submitted client_id, redirect_uri, scope
\* and PKCE challenge and method and expiring CODE_TTL seconds later, redirects
\* to redirect_uri with that code and the submitted state, and leaves TOKENS
\* and every other code as they were.
C10_ConsentIssuesCode ==
    [][(/\ last'.op = "authorize"
        /\ AuthorizePost(last'.req)
        /\ last'.req.action # "deny"
        /\ last'.req.scent \in VALID_SCENTS) =>
          LET form == last'.req
          IN  \E code \in (DOMAIN AUTH_CODES') \ DOMAIN AUTH_CODES :
                  /\ DOMAIN AUTH_CODES' = DOMAIN AUTH_CODES \cup {code}
                  /\ \A c \in DOMAIN AUTH_CODES : AUTH_CODES'[c] = AUTH_CODES[c]
                  /\ AUTH_CODES'[code] =
                        [client_id |-> form.client_id,
                         redirect_uri |-> form.redirect_uri,
                         scope |-> form.scope,
                         code_challenge |-> form.code_challenge,
                         code_challenge_method |-> form.code_challenge_method,
                         expires |-> now + CODE_TTL]
                  /\ last'.resp.kind = "redirect"
                  /\ last'.resp.status = 302
                  /\ last'.resp.uri = form.redirect_uri
                  /\ last'.resp.query = <<<<"code", code>>, <<"state", form.state>>>>
                  /\ TOKENS' = TOKENS]_vars

\* a consent has just added a second code, with a scope other than the default
C10_Witness ==
    /\ last.op = "authorize"
    /\ last.resp.kind = "redirect"
    /\ last.resp.query[1][1] = "code"
    /\ last.resp.query[1][2] \in DOMAIN AUTH_CODES
    /\ AUTH_CODES[last.resp.query[1][2]].scope = "full"
    /\ Cardinality(DOMAIN AUTH_CODES) = 2

(***************************************************************************)
(* Properties of the dispatcher                                            *)
(***************************************************************************)
\* C7, as claimed: a message without an id is answered with no content,
\* whatever its method.
C7_NoBodyWithoutId ==
    (/\ last.op = "message"
     /\ last.req.kind = "object"
     /\ "id" \notin DOMAIN last.req.obj) => last.resp = NoContent

\* C8, as claimed: tools/call with a name that is not in TOOLS is answered
\* with error -32601 naming the tool, and only a registered name is answered
\* with a result.
C8_UnknownToolRefused ==
    (/\ last.op = "message"
     /\ last.req.kind = "object"
     /\ Get(last.req.obj, "method", "") = "tools/call"
     /\ last.resp.kind = "json") =>
        LET name == Get(Get(last.req.obj, "params", JObject(<<>>)).obj, "name", "")
        IN  IF Contains(TOOLS, name)
            THEN "result" \in DOMAIN last.resp.body
            ELSE /\ "error" \in DOMAIN last.resp.body
                 /\ last.resp.body.error.code = -32601
                 /\ Contains(last.resp.body.error.message, name)

(***************************************************************************)
(* Properties of the OAuth endpoints, continued                            *)
(***************************************************************************)
\* C11: a successful authorization_code redemption removes the code from
\* AUTH_CODES and adds exactly one new token to TOKENS, with the scope stored
\* with the code and an expiry TOKEN_TTL (30 days) after the exchange; the
\* response reports that token, token_type Bearer and expires_in 2592000.
C11_RedemptionMintsToken ==
    [][(/\ last'.op = "token"
        /\ TokenPost(last'.req)
        /\ IsCodeRequest(last'.req)
        /\ last'.resp.status = 200) =>
          LET code == CodeOf(last'.req)
          IN  /\ code \in DOMAIN AUTH_CODES
              /\ DOMAIN AUTH_CODES' = DOMAIN AUTH_CODES \ {code}
              /\ \A c \in DOMAIN AUTH_CODES' : AUTH_CODES'[c] = AUTH_CODES[c]
              /\ \E token \in (DOMAIN TOKENS') \ DOMAIN TOKENS :
                    /\ DOMAIN TOKENS' = DOMAIN TOKENS \cup {token}
                    /\ \A k \in DOMAIN TOKENS : TOKENS'[k] = TOKENS[k]
                    /\ TOKENS'[token].scope = AUTH_CODES[code].scope
                    /\ TOKENS'[token].expires = now + 2592000
                    /\ last'.resp.body.access_token = token
                    /\ last'.resp.body.token_type = "Bearer"
                    /\ last'.resp.body.expires_in = 2592000
                    /\ last'.resp.body.scope = AUTH_CODES[code].scope]_vars

\* a code issued with scope read has just been redeemed for a read token
C11_Witness ==
    /\ last.op = "token"
    /\ IsCodeRequest(last.req)
    /\ last.resp.status = 200
    /\ CodeOf(last.req) \in DOMAIN redeemed
    /\ CodeOf(last.req) \notin DOMAIN AUTH_CODES
    /\ last.resp.body.access_token \in DOMAIN TOKENS
    /\ TOKENS[last.resp.body.access_token].scope = "read"

\* C12: a denial redirects to redirect_uri with error=access_denied and the
\* submitted state, joined with "?" when redirect_uri has no query string and
\* with "&" when it has one, and creates no code, whatever the scent.
C12_DenyRedirects ==
    [][(/\ last'.op = "authorize"
        /\ AuthorizePost(last'.req)
        /\ last'.req.action = "deny") =>
          LET form == last'.req
          IN  /\ last'.resp.kind = "redirect"
              /\ last'.resp.status = 302
              /\ last'.resp.uri = form.redirect_uri
              /\ last'.resp.sep = (IF Contains(form.redirect_uri, "?") THEN "&" ELSE "?")
              /\ last'.resp.query = <<<<"error", "access_denied">>, <<"state", form.state>>>>
              /\ AUTH_CODES' = AUTH_CODES
              /\ used' = used
              /\ TOKENS' = TOKENS]_vars

\* a denial with a wrong scent, for a redirect_uri that has a query string
C12_Witness ==
    /\ last.op = "authorize"
    /\ last.req.action = "deny"
    /\ last.req.scent \notin VALID_SCENTS
    /\ last.req.redirect_uri = URI_QUERY
    /\ last.resp.kind = "redirect"
    /\ last.resp.sep = "&"

\* C13: a consent that is not a denial and carries a scent outside the
\* accepted set is answered with the prompt again, with an error and every
\* submitted parameter in it, without a redirect, and changes neither
\* AUTH_CODES nor TOKENS.
C13_WrongScentRerenders ==
    [][(/\ last'.op = "authorize"
        /\ AuthorizePost(last'.req)
        /\ last'.req.action # "deny"
        /\ last'.req.scent \notin VALID_SCENTS) =>
          LET form == last'.req
          IN  /\ last'.resp.kind = "html"
              /\ last'.resp.status = 200
              /\ last'.resp.error = "Invalid scent"
              /\ last'.resp.client_id = form.client_id
              /\ last'.resp.redirect_uri = form.redirect_uri
              /\ last'.resp.scope = form.scope
              /\ last'.resp.state = form.state
              /\ last'.resp.code_challenge = form.code_challenge
              /\ last'.resp.code_challenge_method = form.code_challenge_method
              /\ AUTH_CODES' = AUTH_CODES
              /\ used' = used
              /\ TOKENS' = TOKENS]_vars

\* C19: an authorization_code request presenting a code that is in AUTH_CODES
\* and has expired removes the code and is answered invalid_grant with the
\* description "Code expired"; one presenting a code that is not in AUTH_CODES
\* (unknown, or already removed, as on a repeat of the former request) is
\* answered invalid_grant without a description and leaves AUTH_CODES as it
\* was. Neither mints a token.
C19_ExpiredCodeRemoved ==
    [][(/\ last'.op = "token"
        /\ TokenPost(last'.req)
        /\ IsCodeRequest(last'.req)) =>
          LET code == CodeOf(last'.req)
          IN  /\ (code \in DOMAIN AUTH_CODES /\ AUTH_CODES[code].expires < now) =>
                    /\ last'.resp = Json(400, [error |-> "invalid_grant",
                                               error_description |-> "Code expired"])
                    /\ DOMAIN AUTH_CODES' = DOMAIN AUTH_CODES \ {code}
                    /\ \A c \in DOMAIN AUTH_CODES' : AUTH_CODES'[c] = AUTH_CODES[c]
                    /\ TOKENS' = TOKENS
              /\ code \notin DOMAIN AUTH_CODES =>
                    /\ last'.resp = Json(400, [error |-> "invalid_grant"])
                    /\ AUTH_CODES' = AUTH_CODES
                    /\ TOKENS' = TOKENS]_vars

\* the repeat: a code that was issued and never redeemed is gone from the
\* store, and the request presenting it got the answer without a description
C19_Witness ==
    /\ last.op = "token"
    /\ IsCodeRequest(last.req)
    /\ CodeOf(last.req) \in DOMAIN issued
    /\ CodeOf(last.req) \notin DOMAIN redeemed
    /\ CodeOf(last.req) \notin DOMAIN AUTH_CODES
    /\ last.resp = Json(400, [error |-> "invalid_grant"])

(***************************************************************************)
(* Properties of the stream, continued                                     *)
(***************************************************************************)
\* C14: when an authorized stream leaves its keep-alive sleep without yielding
\* a ping (it was cancelled there), its generator has run to its end (it is
\* done, the cancellation did not leave it as an exception) and no event was
\* added; a finished generator yields nothing more until the next connection.
C14_CancelInSleepEndsQuietly ==
    /\ [][(authorized /\ pc = "sleeping" /\ pc' \notin {"sleeping", "at_ping"}) =>
              (pc' = "done" /\ events' = events)]_vars
    /\ [][pc = "done" => \/ (pc' = "done" /\ events' = events)
                         \/ (pc' = "start" /\ events' = <<>>)]_vars

\* an authorized stream that had yielded a ping has ended
C14_Witness ==
    /\ pc = "done"
    /\ authorized
    /\ Len(events) = 3
    /\ events[3].event = "ping"

\* the stream was opened with a token that was live then and has expired since
OpenTokenExpired ==
    /\ pc \notin {"closed"}
    /\ authorized
    /\ Truthy(request)
    /\ StripBearer(request.parts) \in DOMAIN TOKENS
    /\ TOKENS[StripBearer(request.parts)].expires <= now

\* C18: the authorization of a stream is taken once, when it is opened. A
\* stream opened with a live token never yields an error event; once that
\* token has expired, the stream leaves a keep-alive sleep either by yielding
\* a ping or by ending without an event (a cancellation), and as long as the
\* generator is iterated it does leave the sleep.
C18_AuthorizationIsSnapshot ==
    /\ []((authorized /\ Truthy(request)) => \A i \in DOMAIN events : events[i].event # "error")
    /\ [][(OpenTokenExpired /\ pc = "sleeping" /\ pc' # "sleeping") =>
             \/ (pc' = "at_ping" /\ events' = Emit(events, Event("ping", now)))
             \/ (pc' = "done" /\ events' = events)]_vars
    /\ [][(authorized /\ now' # now) => UNCHANGED <<pc, request, authorized, error_msg, events>>]_vars
    /\ (OpenTokenExpired /\ pc = "sleeping") ~> (pc # "sleeping")

\* a ping stamped at or after the expiry of the token the stream was opened with
C18_Witness ==
    /\ OpenTokenExpired
    /\ pc = "at_ping"
    /\ \E i \in DOMAIN events :
          /\ events[i].event = "ping"
          /\ events[i].data >= TOKENS[StripBearer(request.parts)].expires

(***************************************************************************)
(* Properties of requests in flight                                        *)
(***************************************************************************)
\* C16: whatever else runs in between, and whatever requests are in flight,
\* a resumed authorization_code request mints a token only for a code that is
\* in AUTH_CODES and was never redeemed, and that step takes the code out of
\* AUTH_CODES and adds one token; every other resumed request adds no token.
\* So no code is redeemed twice, even when two requests presenting it are in
\* flight together.
C16_CodeRedeemedOnce ==
    [][(/\ last'.op = "token"
        /\ TokenRun(last'.req)
        /\ IsCodeRequest(last'.req)) =>
          LET code == CodeOf(last'.req)
          IN  IF last'.resp.status = 200
              THEN /\ code \in DOMAIN AUTH_CODES
                   /\ code \notin DOMAIN redeemed
                   /\ code \notin DOMAIN AUTH_CODES'
                   /\ Cardinality(DOMAIN TOKENS') = Cardinality(DOMAIN TOKENS) + 1
              ELSE /\ TOKENS' = TOKENS
                   /\ redeemed' = redeemed]_vars

\* a request has just redeemed a code while a second request presenting the
\* same code is still in flight
C16_Witness ==
    /\ last.op = "token"
    /\ IsCodeRequest(last.req)
    /\ last.resp.status = 200
    /\ BagIn(last.req, inflight)
    /\ CodeOf(last.req) \in DOMAIN redeemed
    /\ Cardinality(DOMAIN TOKENS) = 1

(***************************************************************************)
(* Properties of the whole server                                          *)
(***************************************************************************)
\* C15: a body that cannot be decoded as JSON is answered with the JSON-RPC
\* error -32700 "Parse error" and id null, and the call changes neither
\* AUTH_CODES nor TOKENS.
C15_ParseError ==
    [][(/\ last'.op = "message"
        /\ MessagePost(last'.req)
        /\ last'.req.kind = "malformed") =>
          /\ last'.resp.kind = "json"
          /\ DOMAIN last'.resp.body = {"jsonrpc", "error", "id"}
          /\ last'.resp.body.error.code = -32700
          /\ last'.resp.body.error.message = <<"Parse error">>
          /\ last'.resp.body.id = NONE
          /\ AUTH_CODES' = AUTH_CODES
          /\ TOKENS' = TOKENS]_vars

\* an undecodable body has been answered while both stores held a record
C15_Witness ==
    /\ last.op = "message"
    /\ last.req.kind = "malformed"
    /\ last.resp.body.error.code = -32700
    /\ AUTH_CODES # <<>>
    /\ TOKENS # <<>>

\* C17: no step changes or removes a record of TOKENS; a step of a stream
\* (an open, a yield, an end) or a /message call leaves TOKENS and AUTH_CODES
\* as they were; TOKENS changes only by a successful grant, which adds one
\* record under a key that was not in TOKENS, and every successful grant,
\* refresh_token included, does so.
C17_TokensOnlyAdded ==
    [][/\ \A k \in DOMAIN TOKENS : k \in DOMAIN TOKENS' /\ TOKENS'[k] = TOKENS[k]
       /\ (\/ pc' # pc
           \/ events' # events
           \/ request' # request
           \/ (last' # last /\ last'.op \in {"sse", "message"})) =>
             (TOKENS' = TOKENS /\ AUTH_CODES' = AUTH_CODES)
       /\ TOKENS' # TOKENS =>
             /\ last'.op = "token"
             /\ last'.resp.status = 200
             /\ last'.resp.body.access_token \notin DOMAIN TOKENS
             /\ DOMAIN TOKENS' = DOMAIN TOKENS \cup {last'.resp.body.access_token}
       /\ (last'.op = "token" /\ TokenPost(last'.req) /\ last'.resp.status = 200) =>
             TOKENS' # TOKENS]_vars

\* a refresh_token grant has added a second token, and the token that was
\* there before still has its own, earlier expiry
C17_Witness ==
    /\ last.op = "token"
    /\ ParamsGet(last.req, "grant_type", NONE) = "refresh_token"
    /\ last.resp.status = 200
    /\ Cardinality(DOMAIN TOKENS) = 2
    /\ \E k \in DOMAIN TOKENS :
          TOKENS[k].expires < TOKENS[last.resp.body.access_token].expires

\* what a /message response says, without the timestamp of a tools/call result
Outcome(resp) ==
    IF resp.kind = "json" /\ "result" \in DOMAIN resp.body
                          /\ "content" \in DOMAIN resp.body.result
    THEN [kind |-> resp.kind, status |-> resp.status, id |-> resp.body.id,
          content |-> [i \in DOMAIN resp.body.result.content |->
                         [tool   |-> resp.body.result.content[i].text.tool,
                          args   |-> resp.body.result.content[i].text.args,
                          result |-> resp.body.result.content[i].text.result]]]
    ELSE resp

\* C20: the answer of /message is a function of the body alone: whatever
\* AUTH_CODES and TOKENS held when the call was made, its kind, id and result
\* or error are those the handler gives for that body (the timestamp of a
\* tools/call result apart), and initialize, tools/list and tools/call with an
\* object for params are answered with a result, token or no token.
C20_AnswerIgnoresStores ==
    last.op = "message" =>
        /\ Outcome(last.resp) = Outcome(message_endpoint(last.req, 0))
        /\ (/\ last.req.kind = "object"
            /\ Get(last.req.obj, "method", "") \in {"initialize", "tools/list", "tools/call"}
            /\ Get(last.req.obj, "params", JObject(<<>>)).kind = "object") =>
               (last.resp.kind = "json" /\ "result" \in DOMAIN last.resp.body)

\* tools/call has been answered with a result while the stores held a code
\* and a token, at a later time than the start
C20_Witness ==
    /\ last.op = "message"
    /\ last.req.kind = "object"
    /\ Get(last.req.obj, "method", "") = "tools/call"
    /\ "result" \in DOMAIN last.resp.body
    /\ last.resp.body.result.content[1].text.timestamp > 0
    /\ AUTH_CODES # <<>>
    /\ TOKENS # <<>>

====
